---- MODULE Spec2Model ----
(***************************************************************************)
(* A model of python-fmask's configuration layer (fmask/config.py) and of  *)
(* the Sentinel-2 command line program (bin/fmask_sentinel2Stacked.py).    *)
(*                                                                         *)
(* Representation.                                                         *)
(*  - A Python str, and the text of a file, is a sequence of characters.  *)
(*    The characters that the code treats specially ("=", the double       *)
(*    quote, white space and line ends, digits, ".", "-") are              *)
(*    single-character strings; a run of ordinary characters of a key name *)
(*    may be written as one element ("SPACECRAFT_ID").                     *)
(*  - A Python float is a fixed-point integer counting units of 1e-5.      *)
(*  - A call's outcome is a record [kind, exc, val]: kind "return" with    *)
(*    the value in val, or kind "raise" with the exception's name in exc.  *)
(***************************************************************************)
EXTENDS Integers, Sequences, FiniteSets, TLC

VARIABLES
    op,         \* the name of the last call made ("" before any call)
    result,     \* the outcome of the last call
    mtlFile,    \* the text of the .mtl file on disk
    afi,        \* the AnglesFileInfo object's attributes
    aci,        \* the AngleConstantInfo object's attributes
    hist,       \* history: the constructor's arguments and the lifecycle calls made
    config,     \* the FmaskConfig object
    thermal,    \* the ThermalFileInfo object
    args,       \* the arguments of the last call (of the next one, when Init draws them)
    cli,        \* the command line program: its position, its locals, its exit
    calls,      \* the calls the program has made to the outside, in order
    env         \* what the program finds outside: the XML document, the raster driver

vars == <<op, result, mtlFile, afi, aci, hist, config, thermal, args, cli, calls, env>>

----------------------------------------------------------------------------
(* Outcomes of calls *)

NoValue == <<>>
NoCall == [kind |-> "none", exc |-> "", val |-> NoValue]
Return(v) == [kind |-> "return", exc |-> "", val |-> v]
Raise(e) == [kind |-> "raise", exc |-> e, val |-> NoValue]
Returned(r) == r.kind = "return"
Raised(r) == r.kind = "raise"

----------------------------------------------------------------------------
(* Python str operations used by the code *)

Whitespace == {" ", "\t", "\n", "\r"}
Quote == "\""

\* s[from..] as a sequence
Tail_(s, from) == SubSeq(s, from, Len(s))

\* the positions of s holding the character c
Positions(s, c) == {i \in 1..Len(s) : s[i] = c}

Min(S) == CHOOSE x \in S : \A y \in S : x <= y
Max(S) == CHOOSE x \in S : \A y \in S : x >= y

\* str.split(sep) for a one-character separator
RECURSIVE Split(_, _)
Split(s, sep) ==
    IF Positions(s, sep) = {} THEN <<s>>
    ELSE LET i == Min(Positions(s, sep))
         IN  <<SubSeq(s, 1, i - 1)>> \o Split(Tail_(s, i + 1), sep)

\* str.strip(chars): drop the leading and trailing characters that are in chars
StripChars(s, chars) ==
    LET keep == {i \in 1..Len(s) : s[i] \notin chars}
    IN  IF keep = {} THEN <<>> ELSE SubSeq(s, Min(keep), Max(keep))

\* str.strip()
Strip(s) == StripChars(s, Whitespace)

\* str.replace(c, '')
Remove(s, c) == SelectSeq(s, LAMBDA x : x # c)

----------------------------------------------------------------------------
(* Python dict *)

EmptyDict == <<>>
DictSet(d, k, v) == [x \in (DOMAIN d) \cup {k} |-> IF x = k THEN v ELSE d[x]]
Has(d, k) == k \in DOMAIN d

----------------------------------------------------------------------------
(* readMTLFile *)

\* iterating over an open text file yields its lines, each with its line end
\* (the last one without, when the text does not end in one)
RECURSIVE FileLines(_)
FileLines(text) ==
    IF text = <<>> THEN <<>>
    ELSE IF Positions(text, "\n") = {} THEN <<text>>
    ELSE LET i == Min(Positions(text, "\n"))
         IN  <<SubSeq(text, 1, i)>> \o FileLines(Tail_(text, i + 1))

\* the loop body taking every line with at least one "=" (as a split with
\* maxsplit would)
ReadMTLLine_SplitAtLeastTwo(dict, line) ==
    LET arr == Split(line, "=")
    IN  IF Len(arr) >= 2
        THEN DictSet(dict, Strip(arr[1]), Strip(Remove(arr[2], Quote)))
        ELSE dict

\* one iteration of the loop body
ReadMTLLine(dict, line) ==
    LET arr == Split(line, "=")
    IN  IF Len(arr) = 2
        THEN DictSet(dict, Strip(arr[1]), Strip(Remove(arr[2], Quote)))
        ELSE dict

RECURSIVE ReadMTLLoop(_, _, _)
ReadMTLLoop(dict, lines, i) ==
    IF i > Len(lines) THEN dict
    ELSE ReadMTLLoop(ReadMTLLine(dict, lines[i]), lines, i + 1)

readMTLFile(mtl) == ReadMTLLoop(EmptyDict, FileLines(mtl), 1)

----------------------------------------------------------------------------
(* Python values: None and float *)

\* a float is v units of 1e-5, or of 1e-5 * pi/180 once numpy.radians has
\* converted it from degrees
PyNone == [ty |-> "None", v |-> 0, unit |-> "1"]
PyFloat(x) == [ty |-> "float", v |-> x, unit |-> "1"]
IsNone(x) == x.ty = "None"

\* numpy.radians(x) = x * pi / 180 (0.0 stays 0.0)
Radians(x) == IF x.v = 0 THEN x ELSE [x EXCEPT !.unit = "pi/180"]

\* a float literal int.frac, frac given in units of 1e-5
UnitsPerOne == 10^5
F(int, frac) == int * UnitsPerOne + frac

DigitChars == <<"0", "1", "2", "3", "4", "5", "6", "7", "8", "9">>
IsDigit(c) == \E i \in 1..10 : DigitChars[i] = c
DigitVal(c) == (CHOOSE i \in 1..10 : DigitChars[i] = c) - 1

RECURSIVE DigitsValue(_)
DigitsValue(s) ==
    IF s = <<>> THEN 0
    ELSE DigitsValue(SubSeq(s, 1, Len(s) - 1)) * 10 + DigitVal(s[Len(s)])

\* float(s) for a decimal literal [-]digits[.digits] of at most five decimal
\* places (the literals the model's files hold); any other text the model
\* feeds it is not a number, and float raises ValueError
ParseFloat(s) ==
    LET neg == Len(s) > 0 /\ s[1] = "-"
        body == IF neg THEN Tail_(s, 2) ELSE s
        dots == Positions(body, ".")
        ip == IF dots = {} THEN body ELSE SubSeq(body, 1, Min(dots) - 1)
        fp == IF dots = {} THEN <<>> ELSE Tail_(body, Min(dots) + 1)
        wellFormed ==
            /\ Cardinality(dots) <= 1
            /\ \A i \in 1..Len(ip) : IsDigit(ip[i])
            /\ \A i \in 1..Len(fp) : IsDigit(fp[i])
            /\ Len(ip) + Len(fp) > 0
            /\ Len(fp) <= 5
        mag == DigitsValue(ip) * UnitsPerOne + DigitsValue(fp) * 10^(5 - Len(fp))
    IN  IF wellFormed THEN Return(IF neg THEN 0 - mag ELSE mag)
        ELSE Raise("ValueError")

----------------------------------------------------------------------------
(* ThermalFileInfo and readThermalInfoFromLandsatMTL *)

ThermalFileInfo(thermalBand1040um, thermalGain1040um, thermalOffset1040um, thermalK1_1040um, thermalK2_1040um) ==
    [class |-> "ThermalFileInfo",
     thermalBand1040um |-> thermalBand1040um,
     thermalGain1040um |-> thermalGain1040um,
     thermalOffset1040um |-> thermalOffset1040um,
     thermalK1_1040um |-> thermalK1_1040um,
     thermalK2_1040um |-> thermalK2_1040um]

\* 'RADIANCE_MULT_BAND_%s' % band, and the three other key formats
LANDSAT_RADIANCE_MULT(band) == <<"RADIANCE_MULT_BAND_">> \o band
LANDSAT_RADIANCE_ADD(band) == <<"RADIANCE_ADD_BAND_">> \o band
LANDSAT_K1_CONST(band) == <<"K1_CONSTANT_BAND_">> \o band
LANDSAT_K2_CONST(band) == <<"K2_CONSTANT_BAND_">> \o band

LANDSAT_TH_BAND_NUM_DICT ==
    (<<"LANDSAT_", "4">> :> <<"6">>) @@
    (<<"LANDSAT_", "5">> :> <<"6">>) @@
    (<<"LANDSAT_", "7">> :> <<"6", "_VCID_", "1">>) @@
    (<<"LANDSAT_", "8">> :> <<"1", "0">>)

LANDSAT_K1_DICT == (<<"TM">> :> F(607, 76000)) @@ (<<"ETM">> :> F(666, 9000))
LANDSAT_K2_DICT == (<<"TM">> :> F(1260, 56000)) @@ (<<"ETM">> :> F(1282, 71000))

SPACECRAFT_ID == <<"SPACECRAFT_ID">>
SENSOR_ID == <<"SENSOR_ID">>

\* the function's locals; band is <<>> while it is unbound
ThermalLocals(exc, band, gain, offset, k1, k2) ==
    [exc |-> exc, band |-> band, gain |-> gain, offset |-> offset,
     k1 |-> k1, k2 |-> k2]
Unbound == <<"<unbound>">>

\* float(mtlData[key]): KeyError when the key is missing
FloatOfKey(mtlData, key) ==
    IF ~Has(mtlData, key) THEN Raise("KeyError") ELSE ParseFloat(mtlData[key])

\* lines 344-357: gain and offset
ThermalGainOffset(mtlData) ==
    LET start == ThermalLocals("", Unbound, PyNone, PyNone, PyNone, PyNone)
    IN  IF ~Has(mtlData, SPACECRAFT_ID) THEN start
        ELSE LET spaceCraft == mtlData[SPACECRAFT_ID]
             IN  IF spaceCraft \notin DOMAIN LANDSAT_TH_BAND_NUM_DICT
                 THEN [start EXCEPT !.exc = "KeyError"]
                 ELSE LET band == LANDSAT_TH_BAND_NUM_DICT[spaceCraft]
                          g == FloatOfKey(mtlData, LANDSAT_RADIANCE_MULT(band))
                          o == FloatOfKey(mtlData, LANDSAT_RADIANCE_ADD(band))
                      IN  IF Raised(g) THEN [start EXCEPT !.exc = g.exc, !.band = band]
                          ELSE IF Raised(o) THEN [start EXCEPT !.exc = o.exc, !.band = band]
                          ELSE [start EXCEPT !.band = band, !.gain = PyFloat(g.val),
                                             !.offset = PyFloat(o.val)]

\* lines 359-374: k1 and k2 (the k2 fallback reads LANDSAT_K1_DICT, line 374)
ThermalK1K2(mtlData, loc) ==
    IF loc.exc # "" \/ ~Has(mtlData, SENSOR_ID) THEN loc
    ELSE IF loc.band = Unbound THEN [loc EXCEPT !.exc = "UnboundLocalError"]
    ELSE LET sensor == mtlData[SENSOR_ID]
             s1 == LANDSAT_K1_CONST(loc.band)
             s2 == LANDSAT_K2_CONST(loc.band)
             k1 == IF Has(mtlData, s1) THEN ParseFloat(mtlData[s1])
                   ELSE IF sensor \in DOMAIN LANDSAT_K1_DICT
                        THEN Return(LANDSAT_K1_DICT[sensor])
                        ELSE Raise("KeyError")
             k2 == IF Has(mtlData, s2) THEN ParseFloat(mtlData[s2])
                   ELSE IF sensor \in DOMAIN LANDSAT_K1_DICT
                        THEN Return(LANDSAT_K1_DICT[sensor])
                        ELSE Raise("KeyError")
         IN  IF Raised(k1) THEN [loc EXCEPT !.exc = k1.exc]
             ELSE IF Raised(k2) THEN [loc EXCEPT !.exc = k2.exc, !.k1 = PyFloat(k1.val)]
             ELSE [loc EXCEPT !.k1 = PyFloat(k1.val), !.k2 = PyFloat(k2.val)]

\* the final test passing k2 for k1 and k1 for k2
ThermalBuild_Swapped(thermalBand1040um, loc) ==
    IF loc.exc # "" THEN Raise(loc.exc)
    ELSE IF ~IsNone(loc.gain) /\ ~IsNone(loc.offset) /\ ~IsNone(loc.k1) /\ ~IsNone(loc.k2)
    THEN Return(ThermalFileInfo(thermalBand1040um, loc.gain.v, loc.offset.v,
                                loc.k2.v, loc.k1.v))
    ELSE Raise("FmaskFileError")

\* lines 376-383: the final test
ThermalBuild(thermalBand1040um, loc) ==
    IF loc.exc # "" THEN Raise(loc.exc)
    ELSE IF ~IsNone(loc.gain) /\ ~IsNone(loc.offset) /\ ~IsNone(loc.k1) /\ ~IsNone(loc.k2)
    THEN Return(ThermalFileInfo(thermalBand1040um, loc.gain.v, loc.offset.v,
                                loc.k1.v, loc.k2.v))
    ELSE Raise("FmaskFileError")

readThermalInfoFromLandsatMTL(mtlfile, thermalBand1040um) ==
    LET mtlData == readMTLFile(mtlfile)
    IN  ThermalBuild(thermalBand1040um,
                     ThermalK1K2(mtlData, ThermalGainOffset(mtlData)))

----------------------------------------------------------------------------
(* Values of the variables a specification does not use *)

NoObject == [class |-> "None"]
NoFile == <<>>
NoHist == <<>>
NoArgs == <<>>

----------------------------------------------------------------------------
(* Specification SpecMTL: readMTLFile applied to every small file *)

MaxFileLen == 6

\* one ordinary character, the three kinds the parser treats specially and
\* the line end
MTLChars == {"=", " ", Quote, "a", "\n"}

SeqsUpTo(S, n) == UNION {[1..k -> S] : k \in 0..n}
MTLFiles == SeqsUpTo(MTLChars, MaxFileLen)

InitMTL ==
    /\ mtlFile \in MTLFiles
    /\ op = ""
    /\ result = NoCall
    /\ afi = NoObject
    /\ aci = NoObject
    /\ hist = NoHist
    /\ config = NoObject
    /\ thermal = NoObject
    /\ args = NoArgs
    /\ cli = NoObject
    /\ calls = <<>>
    /\ env = NoObject

CallReadMTLFile ==
    /\ op = ""
    /\ op' = "readMTLFile"
    /\ result' = Return(readMTLFile(mtlFile))
    /\ UNCHANGED <<mtlFile, afi, aci, hist, config, thermal, args, cli, calls, env>>

NextMTL == CallReadMTLFile

SpecMTL == InitMTL /\ [][NextMTL]_vars

\* what the claim's sentences say about one line
HasOneEquals(line) == Cardinality(Positions(line, "=")) = 1
TextBefore(line) == SubSeq(line, 1, Min(Positions(line, "=")) - 1)
TextAfter(line) == Tail_(line, Min(Positions(line, "=")) + 1)
TrimmedKey(line) == StripChars(TextBefore(line), Whitespace)
TrimmedValue(line) == StripChars(TextAfter(line), Whitespace \cup {Quote})
UnquotedValue(line) == StripChars(Remove(TextAfter(line), Quote), Whitespace)

\* the dict d holds exactly the keys of the lines with one "=", each with the
\* value (values[i] for line i) of the last such line
LastWins(d, lines, values) ==
    LET contrib == {i \in DOMAIN lines : HasOneEquals(lines[i])}
    IN  /\ DOMAIN d = {TrimmedKey(lines[i]) : i \in contrib}
        /\ \A k \in DOMAIN d :
              d[k] = values[Max({i \in contrib : TrimmedKey(lines[i]) = k})]

TrimmedValues(lines) ==
    [i \in DOMAIN lines |->
        IF HasOneEquals(lines[i]) THEN TrimmedValue(lines[i]) ELSE <<>>]
UnquotedValues(lines) ==
    [i \in DOMAIN lines |->
        IF HasOneEquals(lines[i]) THEN UnquotedValue(lines[i]) ELSE <<>>]

\* C5 as stated: a line contributes an entry iff it holds exactly one "=", the
\* key is the text before it trimmed of white space, the value is the text
\* after it trimmed of white space and quote characters, and the last line of
\* a key wins.
C5_Original ==
    op = "readMTLFile" => LastWins(result.val, FileLines(mtlFile), TrimmedValues(FileLines(mtlFile)))

\* C5 amended: as C5, but the value is the text after the "=" with every
\* quote character removed (also one inside the value) and then trimmed of
\* white space.
C5_Amended ==
    op = "readMTLFile" => LastWins(result.val, FileLines(mtlFile), UnquotedValues(FileLines(mtlFile)))

\* a file was read in which one key stands on two lines with different
\* values, and a value holds a quote
C5_Witness ==
    LET lines == FileLines(mtlFile)
    IN  /\ op = "readMTLFile"
        /\ Len(lines) = 2
        /\ HasOneEquals(lines[1]) /\ HasOneEquals(lines[2])
        /\ TrimmedKey(lines[1]) = TrimmedKey(lines[2])
        /\ UnquotedValue(lines[1]) # UnquotedValue(lines[2])
        /\ Positions(lines[2], Quote) # {}
        /\ result.val[TrimmedKey(lines[2])] = UnquotedValue(lines[2])

----------------------------------------------------------------------------
(* Specification SpecThermal: readThermalInfoFromLandsatMTL applied to the   *)
(* .mtl files that hold any subset of the keys the function reads           *)

MaxThermalBand == 2

Absent == <<"<absent>">>
SpacecraftChoices ==
    {<<"LANDSAT_", "4">>, <<"LANDSAT_", "5">>, <<"LANDSAT_", "7">>,
     <<"LANDSAT_", "8">>, <<"LANDSAT_", "9">>}
SensorChoices == {<<"TM">>, <<"ETM">>, <<"OLI_TIRS">>}
FileBands == {<<"6">>, <<"6", "_VCID_", "1">>, <<"1", "0">>}
ThermalKeys == {"MULT", "ADD", "K1", "K2"}

GainText == <<"0", ".", "0", "0", "0", "3">>
NotANumber == <<>>
OffsetText == <<"0", ".", "1">>
K1Text == <<"7", "7", "4", ".", "8", "9">>
K2Text == <<"1", "3", "2", "1", ".", "0", "8">>

\* a line of a .mtl file:   KEY = VALUE   or   KEY = "VALUE"
MTLLine(key, value, quoted) ==
    <<" ", " ">> \o key \o <<" ", "=", " ">>
    \o (IF quoted THEN <<Quote>> \o value \o <<Quote>> ELSE value)

\* a line with its line end, or nothing
OptLine(present, line) == IF present THEN line \o <<"\n">> ELSE <<>>

ThermalMTL(sc, sn, fb, keys, gainText) ==
    OptLine(sc # Absent, MTLLine(SPACECRAFT_ID, sc, TRUE))
    \o OptLine(sn # Absent, MTLLine(SENSOR_ID, sn, TRUE))
    \o OptLine("MULT" \in keys, MTLLine(LANDSAT_RADIANCE_MULT(fb), gainText, FALSE))
    \o OptLine("ADD" \in keys, MTLLine(LANDSAT_RADIANCE_ADD(fb), OffsetText, FALSE))
    \o OptLine("K1" \in keys, MTLLine(LANDSAT_K1_CONST(fb), K1Text, FALSE))
    \o OptLine("K2" \in keys, MTLLine(LANDSAT_K2_CONST(fb), K2Text, FALSE))
    \o <<"END", "\n", "\n">>

ThermalMTLFiles ==
    {ThermalMTL(sc, sn, fb, keys, g) :
        sc \in SpacecraftChoices \cup {Absent}, sn \in SensorChoices \cup {Absent},
        fb \in FileBands, keys \in SUBSET ThermalKeys, g \in {GainText, NotANumber}}

InitThermal ==
    /\ mtlFile \in ThermalMTLFiles
    /\ args \in [thermalBand1040um : 0..MaxThermalBand]
    /\ op = ""
    /\ result = NoCall
    /\ afi = NoObject
    /\ aci = NoObject
    /\ hist = NoHist
    /\ config = NoObject
    /\ thermal = NoObject
    /\ cli = NoObject
    /\ calls = <<>>
    /\ env = NoObject

CallReadThermalInfo ==
    /\ op = ""
    /\ op' = "readThermalInfoFromLandsatMTL"
    /\ result' = readThermalInfoFromLandsatMTL(mtlFile, args.thermalBand1040um)
    /\ UNCHANGED <<mtlFile, afi, aci, hist, config, thermal, args, cli, calls, env>>

NextThermal == CallReadThermalInfo

SpecThermal == InitThermal /\ [][NextThermal]_vars

\* the key-to-value mapping the file holds
MTLData == readMTLFile(mtlFile)
ReadThermalDone == op = "readThermalInfoFromLandsatMTL"
IsNumber(d, k) == Has(d, k) /\ Returned(ParseFloat(d[k]))
Num(d, k) == ParseFloat(d[k]).val

L8 == <<"LANDSAT_", "8">>
B10 == <<"1", "0">>
L8Keys == {SPACECRAFT_ID, LANDSAT_RADIANCE_MULT(B10), LANDSAT_RADIANCE_ADD(B10),
           LANDSAT_K1_CONST(B10), LANDSAT_K2_CONST(B10)}
L8Values(d) ==
    /\ d[SPACECRAFT_ID] = L8
    /\ \A k \in L8Keys \ {SPACECRAFT_ID} : IsNumber(d, k)
L8Info(d, b) ==
    ThermalFileInfo(b, Num(d, LANDSAT_RADIANCE_MULT(B10)),
                    Num(d, LANDSAT_RADIANCE_ADD(B10)),
                    Num(d, LANDSAT_K1_CONST(B10)), Num(d, LANDSAT_K2_CONST(B10)))

\* C2 as stated: with exactly the keys SPACECRAFT_ID = "LANDSAT_8" and the
\* band-10 gain, offset, K1 and K2, the function returns a ThermalFileInfo of
\* those four values and of the band index it was given.
C2_Original ==
    (ReadThermalDone /\ DOMAIN MTLData = L8Keys /\ L8Values(MTLData))
        => (Returned(result)
            /\ result.val = L8Info(MTLData, args.thermalBand1040um))

\* C2 amended: the same five keys together with a SENSOR_ID key give that
\* ThermalFileInfo for every band index; without SENSOR_ID the function
\* raises FmaskFileError.
C2_Amended ==
    (ReadThermalDone /\ L8Keys \subseteq DOMAIN MTLData /\ L8Values(MTLData))
        => IF Has(MTLData, SENSOR_ID)
           THEN /\ Returned(result)
                /\ result.val = L8Info(MTLData, args.thermalBand1040um)
           ELSE Raised(result) /\ result.exc = "FmaskFileError"

\* a Landsat 8 file with SENSOR_ID was read for a band index other than 0
C2_Witness ==
    /\ ReadThermalDone
    /\ L8Keys \subseteq DOMAIN MTLData /\ L8Values(MTLData)
    /\ Has(MTLData, SENSOR_ID)
    /\ args.thermalBand1040um = MaxThermalBand
    /\ Returned(result)
    /\ result.val.thermalK1_1040um = F(774, 89000)
    /\ result.val.thermalK2_1040um = F(1321, 8000)

\* the per-sensor constants the claim names
ClaimedK1 == (<<"TM">> :> F(607, 76000)) @@ (<<"ETM">> :> F(666, 9000))
ClaimedK2 == (<<"TM">> :> F(1260, 56000)) @@ (<<"ETM">> :> F(1282, 71000))

\* the file names a known spacecraft and a TM or ETM sensor and holds the
\* gain and offset of the spacecraft's thermal band
HasGainOffset(d) ==
    /\ Has(d, SPACECRAFT_ID) /\ d[SPACECRAFT_ID] \in DOMAIN LANDSAT_TH_BAND_NUM_DICT
    /\ IsNumber(d, LANDSAT_RADIANCE_MULT(LANDSAT_TH_BAND_NUM_DICT[d[SPACECRAFT_ID]]))
    /\ IsNumber(d, LANDSAT_RADIANCE_ADD(LANDSAT_TH_BAND_NUM_DICT[d[SPACECRAFT_ID]]))
BandOf(d) == LANDSAT_TH_BAND_NUM_DICT[d[SPACECRAFT_ID]]

\* C3: with spacecraft, TM or ETM sensor, gain and offset present and the K1
\* and/or K2 key missing, the returned K1 is the file's value or else the
\* sensor family's K1 (TM 607.76, ETM 666.09), and the returned K2 is the
\* file's value or else the sensor family's K2 (TM 1260.56, ETM 1282.71).
C3_Fallback ==
    LET d == MTLData
    IN  (/\ ReadThermalDone
         /\ HasGainOffset(d)
         /\ Has(d, SENSOR_ID) /\ d[SENSOR_ID] \in DOMAIN ClaimedK1
         /\ ~Has(d, LANDSAT_K1_CONST(BandOf(d))) \/ ~Has(d, LANDSAT_K2_CONST(BandOf(d))))
        => /\ Returned(result)
           /\ result.val.thermalK1_1040um =
                 IF Has(d, LANDSAT_K1_CONST(BandOf(d)))
                 THEN Num(d, LANDSAT_K1_CONST(BandOf(d))) ELSE ClaimedK1[d[SENSOR_ID]]
           /\ result.val.thermalK2_1040um =
                 IF Has(d, LANDSAT_K2_CONST(BandOf(d)))
                 THEN Num(d, LANDSAT_K2_CONST(BandOf(d))) ELSE ClaimedK2[d[SENSOR_ID]]

\* C4: when SPACECRAFT_ID is absent, or SENSOR_ID is absent, or the gain or
\* offset key of the spacecraft's thermal band is absent, the function raises
\* FmaskFileError and nothing else.
C4_FileError ==
    LET d == MTLData
    IN  (/\ ReadThermalDone
         /\ \/ ~Has(d, SPACECRAFT_ID)
            \/ ~Has(d, SENSOR_ID)
            \/ /\ d[SPACECRAFT_ID] \in DOMAIN LANDSAT_TH_BAND_NUM_DICT
               /\ \/ ~Has(d, LANDSAT_RADIANCE_MULT(BandOf(d)))
                  \/ ~Has(d, LANDSAT_RADIANCE_ADD(BandOf(d))))
        => Raised(result) /\ result.exc = "FmaskFileError"

----------------------------------------------------------------------------
(* ThermalFileInfo.scaleThermalDNtoC *)

\* 0.00001
RadianceFloor == F(0, 1)

\* rad[rad < 0] = 0.00001 : zero radiance left as it is
ClampRadiance_NegativeOnly(rad) ==
    [i \in DOMAIN rad |-> IF rad[i] < 0 THEN RadianceFloor ELSE rad[i]]

\* line 312: rad[rad <= 0] = 0.00001
ClampRadiance(rad) ==
    [i \in DOMAIN rad |-> IF rad[i] <= 0 THEN RadianceFloor ELSE rad[i]]

\* lines 313-314, K2 / log(K1 / rad + 1.0) - zero_Celsius, kept as the terms it
\* is computed from (the logarithm has no exact value here)
BrightnessTemp(k1, k2, rad) == [K1 |-> k1, K2 |-> k2, rad |-> rad]

\* scaledBT is a stack of bands, band index 0 the first; each band an array
\* of digital numbers
scaleThermalDNtoC(self, scaledBT) ==
    IF self.thermalBand1040um + 1 \notin DOMAIN scaledBT THEN Raise("IndexError")
    ELSE LET dn == scaledBT[self.thermalBand1040um + 1]
             rad == ClampRadiance(
                        [i \in DOMAIN dn |->
                            dn[i] * self.thermalGain1040um + self.thermalOffset1040um])
         IN  Return([i \in DOMAIN rad |->
                        BrightnessTemp(self.thermalK1_1040um, self.thermalK2_1040um,
                                       rad[i])])

----------------------------------------------------------------------------
(* Specification SpecScale: scaleThermalDNtoC on small image stacks *)

MaxStackBands == 2
MaxPixels == 2
MaxDN == 2

\* 0.0003 and 1.0 ; 0.1 and -1.0
GainChoices == {F(0, 30), F(1, 0)}
OffsetChoices == {F(0, 10000), 0 - F(1, 0)}

ImageStacks ==
    UNION {[1..n -> [1..MaxPixels -> 0..MaxDN]] : n \in 1..MaxStackBands}

InitScale ==
    /\ thermal \in {ThermalFileInfo(b, g, o, F(774, 89000), F(1321, 8000)) :
                        b \in 0..MaxStackBands, g \in GainChoices, o \in OffsetChoices}
    /\ op = ""
    /\ result = NoCall
    /\ args = NoArgs
    /\ mtlFile = NoFile
    /\ afi = NoObject
    /\ aci = NoObject
    /\ hist = NoHist
    /\ config = NoObject
    /\ cli = NoObject
    /\ calls = <<>>
    /\ env = NoObject

CallScaleThermalDNtoC ==
    /\ op = ""
    /\ \E scaledBT \in ImageStacks :
          /\ args' = [scaledBT |-> scaledBT]
          /\ result' = scaleThermalDNtoC(thermal, scaledBT)
    /\ op' = "scaleThermalDNtoC"
    /\ UNCHANGED <<mtlFile, afi, aci, hist, config, thermal, cli, calls, env>>

NextScale == CallScaleThermalDNtoC

SpecScale == InitScale /\ [][NextScale]_vars

\* the radiance DN * gain + offset of pixel i of the configured band
Radiance(i) ==
    args.scaledBT[thermal.thermalBand1040um + 1][i] * thermal.thermalGain1040um
        + thermal.thermalOffset1040um

\* C6: every pixel's radiance is DN * gain + offset; a radiance <= 0 is
\* replaced by 1e-5 and a radiance > 0 is used unchanged, so the radiance the
\* logarithm's term K1 / radiance divides by is strictly positive.
C6_Clamp ==
    (op = "scaleThermalDNtoC" /\ Returned(result))
        => \A i \in 1..MaxPixels :
              /\ result.val[i].rad = IF Radiance(i) <= 0 THEN F(0, 1) ELSE Radiance(i)
              /\ result.val[i].rad > 0

\* a band was converted that holds a pixel of zero radiance and a pixel of
\* negative radiance
C6_Witness ==
    /\ op = "scaleThermalDNtoC" /\ Returned(result)
    /\ \E i, j \in 1..MaxPixels :
          /\ Radiance(i) = 0 /\ Radiance(j) < 0
          /\ result.val[i].rad = F(0, 1) /\ result.val[j].rad = F(0, 1)

----------------------------------------------------------------------------
(* AngleConstantInfo and readAnglesFromLandsatMTL *)

AngleConstantInfo(solarZenithAngle, solarAzimuthAngle, viewZenithAngle, viewAzimuthAngle) ==
    [class |-> "AngleConstantInfo",
     solarZenithAngle |-> solarZenithAngle,
     solarAzimuthAngle |-> solarAzimuthAngle,
     viewZenithAngle |-> viewZenithAngle,
     viewAzimuthAngle |-> viewAzimuthAngle]

SUN_AZIMUTH == <<"SUN_AZIMUTH">>
SUN_ELEVATION == <<"SUN_ELEVATION">>

\* the call with the elevation itself taken for the zenith angle
readAnglesFromLandsatMTL_NoComplement(mtlfile) ==
    LET mtlInfo == readMTLFile(mtlfile)
        a == IF Has(mtlInfo, SUN_AZIMUTH)
             THEN ParseFloat(mtlInfo[SUN_AZIMUTH]) ELSE Return(0)
        e == IF Has(mtlInfo, SUN_ELEVATION)
             THEN ParseFloat(mtlInfo[SUN_ELEVATION]) ELSE Return(0)
        saa == IF Has(mtlInfo, SUN_AZIMUTH) THEN Radians(PyFloat(a.val)) ELSE PyNone
        sza == IF Has(mtlInfo, SUN_ELEVATION)
               THEN Radians(PyFloat(e.val)) ELSE PyNone
    IN  IF Raised(a) THEN a
        ELSE IF Raised(e) THEN e
        ELSE IF IsNone(saa) \/ IsNone(sza) THEN Raise("FmaskFileError")
        ELSE Return(AngleConstantInfo(sza, saa, PyFloat(0), PyFloat(0)))

readAnglesFromLandsatMTL(mtlfile) ==
    LET mtlInfo == readMTLFile(mtlfile)
        a == IF Has(mtlInfo, SUN_AZIMUTH)
             THEN ParseFloat(mtlInfo[SUN_AZIMUTH]) ELSE Return(0)
        e == IF Has(mtlInfo, SUN_ELEVATION)
             THEN ParseFloat(mtlInfo[SUN_ELEVATION]) ELSE Return(0)
        saa == IF Has(mtlInfo, SUN_AZIMUTH) THEN Radians(PyFloat(a.val)) ELSE PyNone
        sza == IF Has(mtlInfo, SUN_ELEVATION)
               THEN Radians(PyFloat(F(90, 0) - e.val)) ELSE PyNone
    IN  IF Raised(a) THEN a
        ELSE IF Raised(e) THEN e
        ELSE IF IsNone(saa) \/ IsNone(sza) THEN Raise("FmaskFileError")
        ELSE Return(AngleConstantInfo(sza, saa, PyFloat(0), PyFloat(0)))

----------------------------------------------------------------------------
(* Specification SpecSunAngles: readAnglesFromLandsatMTL applied to .mtl    *)
(* files with and without SUN_AZIMUTH and SUN_ELEVATION                     *)

IntegerTexts == {<<"0">>, <<"4", "5">>, <<"9", "0">>, <<"1", "8", "0">>}
FractionTexts == {<<>>, <<".", "0">>, <<".", "5">>, <<".", "2", "5">>}
DegreeTexts == {i \o f : i \in IntegerTexts, f \in FractionTexts}

AnglesMTL(az, el) ==
    OptLine(az # Absent, MTLLine(SUN_AZIMUTH, az, FALSE))
    \o OptLine(el # Absent, MTLLine(SUN_ELEVATION, el, FALSE))
    \o <<"END">>

AnglesMTLFiles ==
    {AnglesMTL(az, el) :
        az \in DegreeTexts \cup {Absent, NotANumber},
        el \in DegreeTexts \cup {<<"-">> \o t : t \in DegreeTexts} \cup {Absent, NotANumber}}

InitSunAngles ==
    /\ mtlFile \in AnglesMTLFiles
    /\ op = ""
    /\ result = NoCall
    /\ args = NoArgs
    /\ afi = NoObject
    /\ aci = NoObject
    /\ hist = NoHist
    /\ config = NoObject
    /\ thermal = NoObject
    /\ cli = NoObject
    /\ calls = <<>>
    /\ env = NoObject

CallReadAnglesFromLandsatMTL ==
    /\ op = ""
    /\ op' = "readAnglesFromLandsatMTL"
    /\ result' = readAnglesFromLandsatMTL(mtlFile)
    /\ UNCHANGED <<mtlFile, afi, aci, hist, config, thermal, args, cli, calls, env>>

NextSunAngles == CallReadAnglesFromLandsatMTL

SpecSunAngles == InitSunAngles /\ [][NextSunAngles]_vars

\* C7: with SUN_AZIMUTH = a and SUN_ELEVATION = e the result is a constant
\* provider of solar zenith radians(90 - e), solar azimuth radians(a) and view
\* angles exactly 0.0; with either key missing (what is there being a number)
\* FmaskFileError is raised.
C7_SunAngles ==
    LET d == MTLData
        numbers == \A k \in {SUN_AZIMUTH, SUN_ELEVATION} : Has(d, k) => IsNumber(d, k)
    IN  (op = "readAnglesFromLandsatMTL" /\ numbers)
        => IF Has(d, SUN_AZIMUTH) /\ Has(d, SUN_ELEVATION)
           THEN /\ Returned(result)
                /\ result.val.class = "AngleConstantInfo"
                /\ result.val.solarZenithAngle = Radians(PyFloat(90 * UnitsPerOne - Num(d, SUN_ELEVATION)))
                /\ result.val.solarAzimuthAngle = Radians(PyFloat(Num(d, SUN_AZIMUTH)))
                /\ result.val.viewZenithAngle = PyFloat(0)
                /\ result.val.viewAzimuthAngle = PyFloat(0)
           ELSE Raised(result) /\ result.exc = "FmaskFileError"

\* the file with SUN_AZIMUTH = 180.0 and SUN_ELEVATION = 45.0 was read and
\* gave radians(45.0) and radians(180.0)
C7_Witness ==
    /\ op = "readAnglesFromLandsatMTL"
    /\ Has(MTLData, SUN_AZIMUTH) /\ MTLData[SUN_AZIMUTH] = <<"1", "8", "0", ".", "0">>
    /\ Has(MTLData, SUN_ELEVATION) /\ MTLData[SUN_ELEVATION] = <<"4", "5", ".", "0">>
    /\ Returned(result)
    /\ result.val.solarZenithAngle = [ty |-> "float", v |-> 4500000, unit |-> "pi/180"]
    /\ result.val.solarAzimuthAngle = [ty |-> "float", v |-> 18000000, unit |-> "pi/180"]
    /\ result.val.viewZenithAngle.v = 0

----------------------------------------------------------------------------
(* AnglesInfo: the base class's two lifecycle methods do nothing and return *)
(* None; AngleConstantInfo inherits them                                    *)

AnglesInfo_prepareForQuerying(self) == [self |-> self, result |-> Return(PyNone)]
AnglesInfo_releaseMemory(self) == [self |-> self, result |-> Return(PyNone)]

ACI_getSolarZenithAngle(self, indices) == Return(self.solarZenithAngle)
ACI_getSolarAzimuthAngle(self, indices) == Return(self.solarAzimuthAngle)
ACI_getViewZenithAngle(self, indices) == Return(self.viewZenithAngle)

\* the accessor returning the attribute of its neighbour
ACI_getViewAzimuthAngle_Zenith(self, indices) == Return(self.viewZenithAngle)

ACI_getViewAzimuthAngle(self, indices) == Return(self.viewAzimuthAngle)

\* the call self.<name>(indices)
ACI_call(self, name, indices) ==
    CASE name = "getSolarZenithAngle" -> ACI_getSolarZenithAngle(self, indices)
      [] name = "getSolarAzimuthAngle" -> ACI_getSolarAzimuthAngle(self, indices)
      [] name = "getViewZenithAngle" -> ACI_getViewZenithAngle(self, indices)
      [] name = "getViewAzimuthAngle" -> ACI_getViewAzimuthAngle(self, indices)

----------------------------------------------------------------------------
(* Specification SpecConstAngles: an AngleConstantInfo under any sequence   *)
(* of calls                                                                 *)

\* a region is a set of pixel positions of the image; {} is the empty region
Regions == SUBSET (1..MaxPixels)

\* 0.0, 0.5 rad, radians(45.0)
AngleChoices == {PyFloat(0), PyFloat(F(0, 50000)), Radians(PyFloat(F(45, 0)))}

InitConstAngles ==
    /\ \E sz, sa, vz, va \in AngleChoices :
          /\ aci = AngleConstantInfo(sz, sa, vz, va)
          /\ hist = [solarZenithAngle |-> sz, solarAzimuthAngle |-> sa,
                     viewZenithAngle |-> vz, viewAzimuthAngle |-> va]
    /\ op = ""
    /\ result = NoCall
    /\ args = NoArgs
    /\ mtlFile = NoFile
    /\ afi = NoObject
    /\ config = NoObject
    /\ thermal = NoObject
    /\ cli = NoObject
    /\ calls = <<>>
    /\ env = NoObject

ConstAccessor(name) ==
    /\ \E indices \in Regions :
          /\ args' = [indices |-> indices]
          /\ result' = ACI_call(aci, name, indices)
    /\ op' = name
    /\ UNCHANGED <<mtlFile, afi, aci, hist, config, thermal, cli, calls, env>>

ConstGetSolarZenithAngle == ConstAccessor("getSolarZenithAngle")
ConstGetSolarAzimuthAngle == ConstAccessor("getSolarAzimuthAngle")
ConstGetViewZenithAngle == ConstAccessor("getViewZenithAngle")
ConstGetViewAzimuthAngle == ConstAccessor("getViewAzimuthAngle")

ConstPrepareForQuerying ==
    /\ aci' = AnglesInfo_prepareForQuerying(aci).self
    /\ result' = AnglesInfo_prepareForQuerying(aci).result
    /\ op' = "prepareForQuerying"
    /\ args' = NoArgs
    /\ UNCHANGED <<mtlFile, afi, hist, config, thermal, cli, calls, env>>

ConstReleaseMemory ==
    /\ aci' = AnglesInfo_releaseMemory(aci).self
    /\ result' = AnglesInfo_releaseMemory(aci).result
    /\ op' = "releaseMemory"
    /\ args' = NoArgs
    /\ UNCHANGED <<mtlFile, afi, hist, config, thermal, cli, calls, env>>

NextConstAngles ==
    \/ ConstGetSolarZenithAngle
    \/ ConstGetSolarAzimuthAngle
    \/ ConstGetViewZenithAngle
    \/ ConstGetViewAzimuthAngle
    \/ ConstPrepareForQuerying
    \/ ConstReleaseMemory

SpecConstAngles == InitConstAngles /\ [][NextConstAngles]_vars

\* C8: after any sequence of accessor, prepareForQuerying and releaseMemory
\* calls, each accessor returns the constructor argument of its quantity, for
\* every region, the empty one included.
C8_ConstantAngles ==
    /\ op = "getSolarZenithAngle"
          => Returned(result) /\ result.val = hist.solarZenithAngle
    /\ op = "getSolarAzimuthAngle"
          => Returned(result) /\ result.val = hist.solarAzimuthAngle
    /\ op = "getViewZenithAngle"
          => Returned(result) /\ result.val = hist.viewZenithAngle
    /\ op = "getViewAzimuthAngle"
          => Returned(result) /\ result.val = hist.viewAzimuthAngle

\* the view azimuth was asked for the empty region of an object whose four
\* angles are not all the same, and the constructor's value came back
C8_Witness ==
    /\ op = "getViewAzimuthAngle"
    /\ args.indices = {}
    /\ hist.viewAzimuthAngle # hist.viewZenithAngle
    /\ hist.viewAzimuthAngle # hist.solarAzimuthAngle
    /\ Returned(result) /\ result.val = hist.viewAzimuthAngle

----------------------------------------------------------------------------
(* AnglesFileInfo *)

PyStr(s) == [ty |-> "str", v |-> s]
PyInt(n) == [ty |-> "int", v |-> n]

\* the four angle quantities, in the order the methods handle them; the
\* attributes solarZenithFilename, solarZenithBand and solarZenithData are
\* filename["solarZenith"], band["solarZenith"] and data["solarZenith"]
Quantities == <<"solarZenith", "solarAzimuth", "viewZenith", "viewAzimuth">>
QuantitySet == {Quantities[i] : i \in DOMAIN Quantities}

\* an attribute holding None, holding an array, or deleted
DataNone == [st |-> "None", px |-> <<>>]
DataArray(px) == [st |-> "array", px |-> px]
DataUnset == [st |-> "unset", px |-> <<>>]

\* the constructor leaving arrays of zeros in the data attributes
AnglesFileInfo_ZeroData(solarZenithFilename, solarZenithBand, solarAzimuthFilename, solarAzimuthBand, viewZenithFilename, viewZenithBand, viewAzimuthFilename, viewAzimuthBand) ==
    [class |-> "AnglesFileInfo",
     filename |-> [solarZenith |-> solarZenithFilename,
                   solarAzimuth |-> solarAzimuthFilename,
                   viewZenith |-> viewZenithFilename,
                   viewAzimuth |-> viewAzimuthFilename],
     band |-> [solarZenith |-> solarZenithBand, solarAzimuth |-> solarAzimuthBand,
               viewZenith |-> viewZenithBand, viewAzimuth |-> viewAzimuthBand],
     data |-> [q \in QuantitySet |-> DataArray([i \in 1..MaxPixels |-> 0])]]

AnglesFileInfo(solarZenithFilename, solarZenithBand, solarAzimuthFilename, solarAzimuthBand, viewZenithFilename, viewZenithBand, viewAzimuthFilename, viewAzimuthBand) ==
    [class |-> "AnglesFileInfo",
     filename |-> [solarZenith |-> solarZenithFilename,
                   solarAzimuth |-> solarAzimuthFilename,
                   viewZenith |-> viewZenithFilename,
                   viewAzimuth |-> viewAzimuthFilename],
     band |-> [solarZenith |-> solarZenithBand, solarAzimuth |-> solarAzimuthBand,
               viewZenith |-> viewZenithBand, viewAzimuth |-> viewAzimuthBand],
     data |-> [q \in QuantitySet |-> DataNone]]

\* the raster files on disk: each a sequence of bands (GDAL counts them from
\* 1), each band an array of angles
MaxAngleBand == 1
RasterFiles ==
    "angles.img" :> [b \in 1..(MaxAngleBand + 1) |->
                        [i \in 1..MaxPixels |-> PyFloat(b * UnitsPerOne + i)]]

\* readData: gdal.Open gives None for a file it cannot open, GetRasterBand
\* gives None for a band the file does not have
readData(filename, bandNum) ==
    IF filename.ty # "str" THEN Raise("TypeError")
    ELSE IF filename.v \notin DOMAIN RasterFiles THEN Raise("AttributeError")
    ELSE IF bandNum.ty # "int" THEN Raise("TypeError")
    ELSE IF bandNum.v + 1 \notin DOMAIN RasterFiles[filename.v]
         THEN Raise("AttributeError")
    ELSE Return(RasterFiles[filename.v][bandNum.v + 1])

\* prepareForQuerying from quantity number n on: each assignment is made when
\* its readData has returned, and the first exception ends the method.  The
\* second argument of every call is the file name (lines 469, 471, 473, 475).
RECURSIVE AFI_prepareFrom(_, _)
AFI_prepareFrom(self, n) ==
    IF n > Len(Quantities) THEN [self |-> self, result |-> Return(PyNone)]
    ELSE LET q == Quantities[n]
             r == readData(self.filename[q], self.filename[q])
         IN  IF Raised(r) THEN [self |-> self, result |-> r]
             ELSE AFI_prepareFrom([self EXCEPT !.data[q] = DataArray(r.val)], n + 1)

AFI_prepareForQuerying(self) == AFI_prepareFrom(self, 1)

\* releaseMemory from quantity number n on: del of an attribute that is not
\* there raises AttributeError
RECURSIVE AFI_releaseFrom(_, _)
AFI_releaseFrom(self, n) ==
    IF n > Len(Quantities) THEN [self |-> self, result |-> Return(PyNone)]
    ELSE LET q == Quantities[n]
         IN  IF self.data[q].st = "unset"
             THEN [self |-> self, result |-> Raise("AttributeError")]
             ELSE AFI_releaseFrom([self EXCEPT !.data[q] = DataUnset], n + 1)

AFI_releaseMemory(self) == AFI_releaseFrom(self, 1)

RECURSIVE SumOver(_, _)
SumOver(px, S) ==
    IF S = {} THEN 0
    ELSE LET i == Min(S) IN px[i].v + SumOver(px, S \ {i})

\* array[indices].mean(): the sum of the selected pixels over their number;
\* nan for an empty selection
MeanOver(px, indices) ==
    IF indices = {} THEN [ty |-> "float", nan |-> TRUE, sum |-> 0, n |-> 0]
    ELSE [ty |-> "float", nan |-> FALSE, sum |-> SumOver(px, indices),
          n |-> Cardinality(indices)]

\* self.<q>Data[indices].mean()
AFI_getAngle(self, q, indices) ==
    IF self.data[q].st = "unset" THEN Raise("AttributeError")
    ELSE IF self.data[q].st = "None" THEN Raise("TypeError")
    ELSE IF ~(indices \subseteq DOMAIN self.data[q].px) THEN Raise("IndexError")
    ELSE Return(MeanOver(self.data[q].px, indices))

AFI_getSolarZenithAngle(self, indices) == AFI_getAngle(self, "solarZenith", indices)
AFI_getSolarAzimuthAngle(self, indices) == AFI_getAngle(self, "solarAzimuth", indices)
AFI_getViewZenithAngle(self, indices) == AFI_getAngle(self, "viewZenith", indices)
AFI_getViewAzimuthAngle(self, indices) == AFI_getAngle(self, "viewAzimuth", indices)

\* the call self.<name>(indices)
AFI_call(self, name, indices) ==
    CASE name = "getSolarZenithAngle" -> AFI_getSolarZenithAngle(self, indices)
      [] name = "getSolarAzimuthAngle" -> AFI_getSolarAzimuthAngle(self, indices)
      [] name = "getViewZenithAngle" -> AFI_getViewZenithAngle(self, indices)
      [] name = "getViewAzimuthAngle" -> AFI_getViewAzimuthAngle(self, indices)

----------------------------------------------------------------------------
(* Specification SpecFileAngles: an AnglesFileInfo under any sequence of     *)
(* calls                                                                    *)

AngleFilenames == {PyStr("angles.img"), PyStr("missing.img")}
AngleBands == {PyInt(b) : b \in 0..MaxAngleBand}

InitFileAngles ==
    /\ \E szf, saf, vzf, vaf \in AngleFilenames :
       \E szb, sab, vzb, vab \in AngleBands :
          afi = AnglesFileInfo(szf, szb, saf, sab, vzf, vzb, vaf, vab)
    /\ hist = [prepareCalled |-> FALSE, releaseCalled |-> FALSE,
               last |-> "none", filename |-> afi.filename, band |-> afi.band]
    /\ op = ""
    /\ result = NoCall
    /\ args = NoArgs
    /\ mtlFile = NoFile
    /\ aci = NoObject
    /\ config = NoObject
    /\ thermal = NoObject
    /\ cli = NoObject
    /\ calls = <<>>
    /\ env = NoObject

FileAccessor(name) ==
    /\ \E indices \in Regions :
          /\ args' = [indices |-> indices]
          /\ result' = AFI_call(afi, name, indices)
    /\ op' = name
    /\ UNCHANGED <<mtlFile, afi, aci, hist, config, thermal, cli, calls, env>>

FileGetSolarZenithAngle == FileAccessor("getSolarZenithAngle")
FileGetSolarAzimuthAngle == FileAccessor("getSolarAzimuthAngle")
FileGetViewZenithAngle == FileAccessor("getViewZenithAngle")
FileGetViewAzimuthAngle == FileAccessor("getViewAzimuthAngle")

FilePrepareForQuerying ==
    /\ afi' = AFI_prepareForQuerying(afi).self
    /\ result' = AFI_prepareForQuerying(afi).result
    /\ hist' = [hist EXCEPT !.prepareCalled = TRUE, !.last = "prepareForQuerying"]
    /\ op' = "prepareForQuerying"
    /\ args' = NoArgs
    /\ UNCHANGED <<mtlFile, aci, config, thermal, cli, calls, env>>

FileReleaseMemory ==
    /\ afi' = AFI_releaseMemory(afi).self
    /\ result' = AFI_releaseMemory(afi).result
    /\ hist' = [hist EXCEPT !.releaseCalled = TRUE, !.last = "releaseMemory"]
    /\ op' = "releaseMemory"
    /\ args' = NoArgs
    /\ UNCHANGED <<mtlFile, aci, config, thermal, cli, calls, env>>

NextFileAngles ==
    \/ FileGetSolarZenithAngle
    \/ FileGetSolarAzimuthAngle
    \/ FileGetViewZenithAngle
    \/ FileGetViewAzimuthAngle
    \/ FilePrepareForQuerying
    \/ FileReleaseMemory

SpecFileAngles == InitFileAngles /\ [][NextFileAngles]_vars

AccessorNames ==
    {"getSolarZenithAngle", "getSolarAzimuthAngle", "getViewZenithAngle",
     "getViewAzimuthAngle"}

\* C1: on an AnglesFileInfo whose prepareForQuerying has not been called yet,
\* each of the four accessors, for every region, ends in an exception raised
\* for the missing buffer and returns no value.
C1_QueryBeforePrepare ==
    (op \in AccessorNames /\ ~hist.prepareCalled)
        => /\ Raised(result)
           /\ result.exc \in {"TypeError", "AttributeError"}
           /\ result.val = NoValue

\* an accessor was called, for a region that is not empty, on a fresh object
\* (neither prepareForQuerying nor releaseMemory called) and raised
C1_Witness ==
    /\ op = "getViewZenithAngle"
    /\ ~hist.prepareCalled /\ ~hist.releaseCalled
    /\ args.indices # {}
    /\ afi.data["viewZenith"] = DataNone
    /\ Raised(result) /\ result.exc = "TypeError"

\* the buffer that the raster files hold for quantity q of the constructor's
\* arguments: band index + 1 of the driver's bands of that quantity's file
Configured(q) == RasterFiles[hist.filename[q].v][hist.band[q].v + 1]

\* every one of the four files exists and has the configured band
AllReadable ==
    \A q \in QuantitySet :
        /\ hist.filename[q].v \in DOMAIN RasterFiles
        /\ hist.band[q].v + 1 \in DOMAIN RasterFiles[hist.filename[q].v]

\* C12: after prepareForQuerying on an object whose four files exist, the call
\* has returned and each of the four buffers is the content of that
\* quantity's configured file at that quantity's configured band.
C12_LoadsConfiguredBands ==
    (op = "prepareForQuerying" /\ AllReadable)
        => /\ Returned(result)
           /\ \A q \in QuantitySet : afi.data[q] = DataArray(Configured(q))

\* C13: releaseMemory returns, leaves no buffer loaded and leaves the four
\* paths and the four band indices as constructed, also when the buffers are
\* already unset; an accessor called after releaseMemory with no
\* prepareForQuerying in between raises; an accessor called for a region
\* that is not empty after a prepareForQuerying that followed a
\* releaseMemory returns the mean of the configured buffer.
C13_ReleaseLifecycle ==
    /\ op = "releaseMemory"
          => /\ Returned(result)
             /\ \A q \in QuantitySet : afi.data[q].st # "array"
             /\ afi.filename = hist.filename
             /\ afi.band = hist.band
    /\ (op \in AccessorNames /\ hist.last = "releaseMemory")
          => Raised(result)
    /\ (/\ op \in AccessorNames
        /\ hist.last = "prepareForQuerying"
        /\ hist.releaseCalled
        /\ AllReadable
        /\ args.indices # {})
          => Returned(result)

----------------------------------------------------------------------------
(* FmaskConfig *)

FMASK_LANDSAT47 == 0
FMASK_LANDSAT8 == 1
FMASK_SENTINEL2 == 2

BAND_BLUE == 0
BAND_GREEN == 1
BAND_RED == 2
BAND_NIR == 3
BAND_CIRRUS == 4
BAND_SWIR1 == 5
BAND_SWIR2 == 6

\* what gdal.GetDriverByName(applier.DEFAULTDRIVERNAME) finds: no driver, a
\* driver without DMD_EXTENSION, a driver with it
NoDriver == [found |-> FALSE, ext |-> ""]
Drivers == {NoDriver, [found |-> TRUE, ext |-> ""], [found |-> TRUE, ext |-> "img"]}

\* the table with the Sentinel 2 NIR band one place off
DefaultBands_NIROff(sensor) ==
    IF sensor = FMASK_LANDSAT47
    THEN (BAND_BLUE :> 0) @@ (BAND_GREEN :> 1) @@ (BAND_RED :> 2) @@ (BAND_NIR :> 3)
         @@ (BAND_SWIR1 :> 4) @@ (BAND_SWIR2 :> 5)
    ELSE IF sensor = FMASK_LANDSAT8
    THEN (BAND_BLUE :> 1) @@ (BAND_GREEN :> 2) @@ (BAND_RED :> 3) @@ (BAND_NIR :> 4)
         @@ (BAND_SWIR1 :> 5) @@ (BAND_SWIR2 :> 6) @@ (BAND_CIRRUS :> 7)
    ELSE (BAND_BLUE :> 1) @@ (BAND_GREEN :> 2) @@ (BAND_RED :> 3) @@ (BAND_NIR :> 7)
         @@ (BAND_SWIR1 :> 10) @@ (BAND_SWIR2 :> 11) @@ (BAND_CIRRUS :> 9)

\* lines 71-79
DefaultBands(sensor) ==
    IF sensor = FMASK_LANDSAT47
    THEN (BAND_BLUE :> 0) @@ (BAND_GREEN :> 1) @@ (BAND_RED :> 2) @@ (BAND_NIR :> 3)
         @@ (BAND_SWIR1 :> 4) @@ (BAND_SWIR2 :> 5)
    ELSE IF sensor = FMASK_LANDSAT8
    THEN (BAND_BLUE :> 1) @@ (BAND_GREEN :> 2) @@ (BAND_RED :> 3) @@ (BAND_NIR :> 4)
         @@ (BAND_SWIR1 :> 5) @@ (BAND_SWIR2 :> 6) @@ (BAND_CIRRUS :> 7)
    ELSE (BAND_BLUE :> 1) @@ (BAND_GREEN :> 2) @@ (BAND_RED :> 3) @@ (BAND_NIR :> 6)
         @@ (BAND_SWIR1 :> 10) @@ (BAND_SWIR2 :> 11) @@ (BAND_CIRRUS :> 9)

\* FmaskConfig.__init__
FmaskConfig(sensor, driver) ==
    IF sensor \notin {FMASK_LANDSAT47, FMASK_LANDSAT8, FMASK_SENTINEL2}
    THEN Raise("FmaskParameterError")
    ELSE IF ~driver.found THEN Raise("FmaskParameterError")
    ELSE Return([class |-> "FmaskConfig",
                 sensor |-> sensor,
                 bands |-> DefaultBands(sensor),
                 thermalInfo |-> PyNone,
                 anglesInfo |-> PyNone,
                 defaultExtension |-> IF driver.ext = "" THEN ".tmp" ELSE "." \o driver.ext,
                 keepIntermediates |-> FALSE,
                 cloudBufferSize |-> 5,
                 shadowBufferSize |-> 10,
                 verbose |-> FALSE,
                 strictFmask |-> FALSE,
                 tempDir |-> "."])

\* the setter with its two arguments taken the other way round
setReflectiveBand_Swapped(self, band, index) ==
    [self EXCEPT !.bands = DictSet(self.bands, index, band)]

\* self.bands[band] = index
setReflectiveBand(self, band, index) ==
    [self EXCEPT !.bands = DictSet(self.bands, band, index)]

----------------------------------------------------------------------------
(* Specification SpecConfig: an FmaskConfig is constructed and its band     *)
(* layout changed by setReflectiveBand calls                                *)

MaxSensor == 3
MaxIndex == 3
MaxSetCalls == 2

BandRoles ==
    {BAND_BLUE, BAND_GREEN, BAND_RED, BAND_NIR, BAND_CIRRUS, BAND_SWIR1, BAND_SWIR2}

InitConfig ==
    /\ config = NoObject
    /\ hist = [setCalls |-> 0, clashFree |-> TRUE]
    /\ op = ""
    /\ result = NoCall
    /\ args = NoArgs
    /\ mtlFile = NoFile
    /\ afi = NoObject
    /\ aci = NoObject
    /\ thermal = NoObject
    /\ cli = NoObject
    /\ calls = <<>>
    /\ env = NoObject

Construct ==
    /\ op = ""
    /\ \E sensor \in 0..MaxSensor, driver \in Drivers :
          /\ args' = [sensor |-> sensor, driver |-> driver]
          /\ result' = FmaskConfig(sensor, driver)
          /\ config' = IF Returned(FmaskConfig(sensor, driver))
                       THEN FmaskConfig(sensor, driver).val ELSE NoObject
    /\ op' = "FmaskConfig"
    /\ UNCHANGED <<mtlFile, afi, aci, hist, thermal, cli, calls, env>>

\* hist.clashFree records whether every call so far gave an index that no
\* other role held, and no Cirrus band to a Landsat 4-7 configuration
SetReflectiveBand ==
    /\ config.class = "FmaskConfig"
    /\ hist.setCalls < MaxSetCalls
    /\ \E band \in BandRoles, index \in 0..MaxIndex :
          /\ args' = [band |-> band, index |-> index]
          /\ config' = setReflectiveBand(config, band, index)
          /\ hist' = [setCalls |-> hist.setCalls + 1,
                      clashFree |->
                          /\ hist.clashFree
                          /\ \A r \in DOMAIN config.bands \ {band} :
                                config.bands[r] # index
                          /\ ~(config.sensor = FMASK_LANDSAT47 /\ band = BAND_CIRRUS)]
    /\ result' = Return(PyNone)
    /\ op' = "setReflectiveBand"
    /\ UNCHANGED <<mtlFile, afi, aci, thermal, cli, calls, env>>

NextConfig == Construct \/ SetReflectiveBand

SpecConfig == InitConfig /\ [][NextConfig]_vars

\* the layouts the documentation gives
DocumentedBands(sensor) ==
    IF sensor = 0
    THEN [Blue |-> 0, Green |-> 1, Red |-> 2, NIR |-> 3, SWIR1 |-> 4, SWIR2 |-> 5]
    ELSE IF sensor = 1
    THEN [Blue |-> 1, Green |-> 2, Red |-> 3, NIR |-> 4, SWIR1 |-> 5, SWIR2 |-> 6,
          Cirrus |-> 7]
    ELSE [Blue |-> 1, Green |-> 2, Red |-> 3, NIR |-> 6, SWIR1 |-> 10, SWIR2 |-> 11,
          Cirrus |-> 9]
RoleName ==
    (BAND_BLUE :> "Blue") @@ (BAND_GREEN :> "Green") @@ (BAND_RED :> "Red")
    @@ (BAND_NIR :> "NIR") @@ (BAND_CIRRUS :> "Cirrus") @@ (BAND_SWIR1 :> "SWIR1")
    @@ (BAND_SWIR2 :> "SWIR2")

\* C9: constructing an FmaskConfig for Landsat4-7, Landsat8 or Sentinel2
\* gives the documented index to each band role and no other role (no Cirrus
\* for Landsat4-7); any other sensor value raises FmaskParameterError and
\* yields no configuration.
C9_DefaultBands ==
    op = "FmaskConfig" =>
        IF args.sensor \in {0, 1, 2}
        THEN /\ args.driver.found => Returned(result)
             /\ Returned(result) =>
                   /\ config = result.val
                   /\ {RoleName[b] : b \in DOMAIN config.bands}
                         = DOMAIN DocumentedBands(args.sensor)
                   /\ \A b \in DOMAIN config.bands :
                         config.bands[b] = DocumentedBands(args.sensor)[RoleName[b]]
        ELSE /\ Raised(result) /\ result.exc = "FmaskParameterError"
             /\ config = NoObject

\* a Sentinel2 configuration was constructed: NIR is band 6, Cirrus band 9
C9_Witness ==
    /\ op = "FmaskConfig"
    /\ args.sensor = 2
    /\ Returned(result)
    /\ config.bands[BAND_NIR] = 6 /\ config.bands[BAND_CIRRUS] = 9

\* no two configured roles share an index, and Landsat4-7 has no Cirrus role
UniqueLayout(c) ==
    /\ \A r1, r2 \in DOMAIN c.bands : r1 # r2 => c.bands[r1] # c.bands[r2]
    /\ c.sensor = FMASK_LANDSAT47 => BAND_CIRRUS \notin DOMAIN c.bands

\* C10 as stated: in every state reached from construction by
\* setReflectiveBand calls, no two configured roles map to the same index and
\* a Landsat4-7 configuration has no Cirrus role.
C10_Original ==
    config.class = "FmaskConfig" => UniqueLayout(config)

\* C10 amended: that holds after construction and after setReflectiveBand
\* calls each of which gave an index no other configured role held and, on a
\* Landsat4-7 configuration, a band other than Cirrus; setReflectiveBand
\* itself checks neither.
C10_Amended ==
    (config.class = "FmaskConfig" /\ hist.clashFree) => UniqueLayout(config)

\* two calls that kept to that discipline have changed the layout
C10_Witness ==
    /\ config.class = "FmaskConfig"
    /\ hist.clashFree /\ hist.setCalls = MaxSetCalls
    /\ config.bands # DefaultBands(config.sensor)
    /\ UniqueLayout(config)

----------------------------------------------------------------------------
(* FmaskFilenames and the FmaskConfig setters that the command line program *)
(* calls                                                                    *)

\* FmaskFilenames() with every argument at its default
FmaskFilenames ==
    [class |-> "FmaskFilenames", toaRef |-> PyNone, thermal |-> PyNone,
     saturationMask |-> PyNone, outputMask |-> PyNone]

setTOAReflectanceFile(self, toaRefFile) == [self EXCEPT !.toaRef = toaRefFile]

\* the setter storing the output name over the reflectance name
setOutputCloudMaskFile_ToaRef(self, cloudMask) == [self EXCEPT !.toaRef = cloudMask]

setOutputCloudMaskFile(self, cloudMask) == [self EXCEPT !.outputMask = cloudMask]

setAnglesInfo(self, info) == [self EXCEPT !.anglesInfo = info]
setKeepIntermediates(self, keepIntermediates) == [self EXCEPT !.keepIntermediates = keepIntermediates]
setVerbose(self, verbose) == [self EXCEPT !.verbose = verbose]

----------------------------------------------------------------------------
(* bin/fmask_sentinel2Stacked.py                                            *)

\* a call to the outside, as the trace records it
Call(fn, arguments) == [fn |-> fn, args |-> arguments]

\* the options of lines 37-46: for each option string its dest and action
OptionStrings ==
    {"-a", "--toa", "-o", "--output", "-x", "--xml", "-v", "--verbose",
     "-k", "--keepintermediates"}
OptionDest(o) ==
    CASE o \in {"-a", "--toa"} -> "toa"
      [] o \in {"-o", "--output"} -> "output"
      [] o \in {"-x", "--xml"} -> "xml"
      [] o \in {"-v", "--verbose"} -> "verbose"
      [] o \in {"-k", "--keepintermediates"} -> "keepintermediates"
StoreTrue(o) == OptionDest(o) \in {"verbose", "keepintermediates"}

\* the values of the dests when no option is given: None, and the two
\* default=False of lines 43 and 45
OptionDefaults ==
    [toa |-> PyNone, output |-> PyNone, xml |-> PyNone,
     verbose |-> FALSE, keepintermediates |-> FALSE]

\* parser.parse_args() over the tokens of the command line from position i:
\* an option with a value takes the next token, a store_true option sets its
\* dest, any other token is a positional argument; an option that needs a
\* value and is the last token is an error (usage, exit status 2)
RECURSIVE parse_from(_, _, _, _)
parse_from(argv, i, options, positional) ==
    IF i > Len(argv) THEN [kind |-> "ok", options |-> options, args |-> positional]
    ELSE IF argv[i] \notin OptionStrings
    THEN parse_from(argv, i + 1, options, Append(positional, argv[i]))
    ELSE IF StoreTrue(argv[i])
    THEN parse_from(argv, i + 1, [options EXCEPT ![OptionDest(argv[i])] = TRUE], positional)
    ELSE IF i = Len(argv)
    THEN [kind |-> "error", options |-> options, args |-> positional]
    ELSE parse_from(argv, i + 2,
                    [options EXCEPT ![OptionDest(argv[i])] = PyStr(argv[i + 1])],
                    positional)
parse_args(argv) == parse_from(argv, 1, OptionDefaults, <<>>)

\* CmdArgs.__init__: the object, the calls made, and the exit status when the
\* constructor ends the program (-1 when it returns)
StillRunning == 0 - 1
CmdArgs(argv) ==
    LET p == parse_args(argv)
        self == [class |-> "CmdArgs", args |-> p.args,
                 toa |-> p.options.toa, output |-> p.options.output,
                 xml |-> p.options.xml, verbose |-> p.options.verbose,
                 keepintermediates |-> p.options.keepintermediates]
    IN  IF p.kind = "error"
        THEN [self |-> NoObject, calls |-> <<Call("parser.error", <<>>)>>, exit |-> 2]
        ELSE IF IsNone(self.output) \/ IsNone(self.toa) \/ IsNone(self.xml)
        THEN [self |-> self, calls |-> <<Call("parser.print_help", <<>>)>>, exit |-> 1]
        ELSE [self |-> self, calls |-> <<>>, exit |-> StillRunning]

\* The XML document found at a path: state "missing" (no such file),
\* "malformed" (not well-formed XML) or "parsed"; sun is the sequence of its
\* Mean_Sun_Angle elements in document order, each with the texts of its
\* ZENITH_ANGLE and of its AZIMUTH_ANGLE children in order (the text <<>> is
\* an element with no text child).
XmlDoc(state, sun) == [state |-> state, sun |-> sun]

\* element.firstChild.data then float()
FloatOfFirstChild(text) ==
    IF text = <<>> THEN Raise("AttributeError") ELSE ParseFloat(text)

\* getMeanSunAngles, of the document that minidom.parse finds at xmlFile
getMeanSunAngles(xmldoc) ==
    IF xmldoc.state = "missing" THEN Raise("IOError")
    ELSE IF xmldoc.state = "malformed" THEN Raise("ExpatError")
    ELSE LET itemList == xmldoc.sun IN
         IF itemList = <<>> THEN Raise("IndexError")
         ELSE LET zenList == itemList[1].zen IN
              IF zenList = <<>> THEN Raise("IndexError")
              ELSE LET zenith == FloatOfFirstChild(zenList[1]) IN
                   IF Raised(zenith) THEN zenith
                   ELSE LET aziList == itemList[1].azi IN
                        IF aziList = <<>> THEN Raise("IndexError")
                        ELSE LET azimuth == FloatOfFirstChild(aziList[1]) IN
                             IF Raised(azimuth) THEN azimuth
                             ELSE Return(AngleConstantInfo(PyFloat(zenith.val),
                                                           PyFloat(azimuth.val),
                                                           PyInt(0), PyInt(0)))

----------------------------------------------------------------------------
(* Specification SpecCLI: one run of mainRoutine, statement by statement,   *)
(* for every command line, XML document and raster driver                   *)

ToaFile == "toa.img"
OutputFile == "cloud.img"
XmlFile == "granule.xml"

\* a flag absent, given by its short form or given by its long form
FlagForms(short, long, value) == {<<>>, <<short, value>>, <<long, value>>}
SwitchForms(short) == {<<>>, <<short>>}
CommandLines ==
    {a \o o \o x \o v \o k :
        a \in FlagForms("-a", "--toa", ToaFile),
        o \in FlagForms("-o", "--output", OutputFile),
        x \in FlagForms("-x", "--xml", XmlFile),
        v \in SwitchForms("-v"),
        k \in SwitchForms("--keepintermediates")}

AngleTexts == {<<"3", "0", ".", "5">>, <<"1", "5", "0">>, <<"a">>, <<>>}
ChildLists == {<<>>} \cup {<<t>> : t \in AngleTexts}
SunElements == {[zen |-> z, azi |-> a] : z \in ChildLists, a \in ChildLists}
OtherSunElement == [zen |-> <<<<"6", "0">>>>, azi |-> <<<<"9", "0">>>>]
XmlDocs ==
    {XmlDoc("missing", <<>>), XmlDoc("malformed", <<>>), XmlDoc("parsed", <<>>)}
    \cup {XmlDoc("parsed", <<e>>) : e \in SunElements}
    \cup {XmlDoc("parsed", <<e, OtherSunElement>>) : e \in SunElements}

InitCLI ==
    /\ \E argv \in CommandLines : args = [argv |-> argv]
    /\ \E doc \in XmlDocs : \E d \in Drivers : env = [xml |-> doc, driver |-> d]
    /\ cli = [pc |-> "CmdArgs", cmdargs |-> NoObject, anglesInfo |-> NoObject,
              fmaskFilenames |-> NoObject, fmaskConfig |-> NoObject,
              exit |-> StillRunning, exc |-> ""]
    /\ calls = <<>>
    /\ op = ""
    /\ result = NoCall
    /\ mtlFile = NoFile
    /\ afi = NoObject
    /\ aci = NoObject
    /\ hist = NoHist
    /\ config = NoObject
    /\ thermal = NoObject

\* the program ends with an uncaught exception: traceback, exit status 1
Uncaught(exc) == [cli EXCEPT !.pc = "exited", !.exit = 1, !.exc = exc]

\* line 74: cmdargs = CmdArgs()
MainCmdArgs ==
    /\ cli.pc = "CmdArgs"
    /\ LET r == CmdArgs(args.argv) IN
          /\ calls' = calls \o r.calls
          /\ cli' = IF r.exit = StillRunning
                    THEN [cli EXCEPT !.pc = "getMeanSunAngles", !.cmdargs = r.self]
                    ELSE [cli EXCEPT !.pc = "exited", !.cmdargs = r.self,
                                     !.exit = r.exit, !.exc = "SystemExit"]
    /\ UNCHANGED <<op, result, mtlFile, afi, aci, hist, config, thermal, args, env>>

\* line 76: anglesInfo = getMeanSunAngles(cmdargs.xml)
MainGetMeanSunAngles ==
    /\ cli.pc = "getMeanSunAngles"
    /\ calls' = Append(calls, Call("minidom.parse", <<cli.cmdargs.xml>>))
    /\ LET r == getMeanSunAngles(env.xml) IN
          cli' = IF Raised(r) THEN Uncaught(r.exc)
                 ELSE [cli EXCEPT !.pc = "FmaskFilenames", !.anglesInfo = r.val]
    /\ UNCHANGED <<op, result, mtlFile, afi, aci, hist, config, thermal, args, env>>

\* lines 78-80
MainFmaskFilenames ==
    /\ cli.pc = "FmaskFilenames"
    /\ cli' = [cli EXCEPT
                 !.pc = "FmaskConfig",
                 !.fmaskFilenames =
                     setOutputCloudMaskFile(
                         setTOAReflectanceFile(FmaskFilenames, cli.cmdargs.toa),
                         cli.cmdargs.output)]
    /\ UNCHANGED <<op, result, mtlFile, afi, aci, hist, config, thermal, args, calls, env>>

\* lines 82-85
MainFmaskConfig ==
    /\ cli.pc = "FmaskConfig"
    /\ LET r == FmaskConfig(FMASK_SENTINEL2, env.driver) IN
          cli' = IF Raised(r) THEN Uncaught(r.exc)
                 ELSE [cli EXCEPT
                         !.pc = "doFmask",
                         !.fmaskConfig =
                             setVerbose(
                                 setKeepIntermediates(
                                     setAnglesInfo(r.val, cli.anglesInfo),
                                     cli.cmdargs.keepintermediates),
                                 cli.cmdargs.verbose)]
    /\ UNCHANGED <<op, result, mtlFile, afi, aci, hist, config, thermal, args, calls, env>>

\* line 87: fmask.doFmask(fmaskFilenames, fmaskConfig); the routine is not
\* part of this program: it returns, or it raises
MainDoFmask ==
    /\ cli.pc = "doFmask"
    /\ calls' = Append(calls, Call("fmask.doFmask", <<cli.fmaskFilenames, cli.fmaskConfig>>))
    /\ \E raises \in BOOLEAN :
          cli' = IF raises THEN Uncaught("Exception")
                 ELSE [cli EXCEPT !.pc = "done", !.exit = 0]
    /\ UNCHANGED <<op, result, mtlFile, afi, aci, hist, config, thermal, args, env>>

NextCLI ==
    \/ MainCmdArgs
    \/ MainGetMeanSunAngles
    \/ MainFmaskFilenames
    \/ MainFmaskConfig
    \/ MainDoFmask

SpecCLI == InitCLI /\ [][NextCLI]_vars

\* what the command line gives, read off its tokens
FlagPositions(names) == {i \in DOMAIN args.argv : args.argv[i] \in names}
FlagGiven(names) == FlagPositions(names) # {}
FlagValue(names) == PyStr(args.argv[Max(FlagPositions(names)) + 1])
ToaGiven == FlagGiven({"-a", "--toa"})
OutputGiven == FlagGiven({"-o", "--output"})
XmlGiven == FlagGiven({"-x", "--xml"})
AllGiven == ToaGiven /\ OutputGiven /\ XmlGiven

\* what the trace holds
CallsOf(fn) == {i \in DOMAIN calls : calls[i].fn = fn}
Ended == cli.pc \in {"exited", "done"}

\* the usage path: the constructor has run with a required flag missing
UsageAndExit ==
    /\ cli.pc = "exited"
    /\ cli.exit = 1
    /\ cli.exc = "SystemExit"
    /\ calls = <<Call("parser.print_help", <<>>)>>

\* every doFmask call in the trace comes after a read of the XML and has the
\* arguments the flags ask for
DoFmaskCallsRight ==
    \A i \in CallsOf("fmask.doFmask") :
        /\ \E j \in CallsOf("minidom.parse") :
              j < i /\ calls[j].args = <<FlagValue({"-x", "--xml"})>>
        /\ calls[i].args[1].toaRef = FlagValue({"-a", "--toa"})
        /\ calls[i].args[1].outputMask = FlagValue({"-o", "--output"})
        /\ calls[i].args[2].sensor = FMASK_SENTINEL2
        /\ calls[i].args[2].anglesInfo # PyNone
        /\ calls[i].args[2].anglesInfo.class = "AngleConstantInfo"
        /\ calls[i].args[2].verbose = FlagGiven({"-v", "--verbose"})
        /\ calls[i].args[2].keepIntermediates = FlagGiven({"-k", "--keepintermediates"})

\* the document's first Mean_Sun_Angle element has a first ZENITH_ANGLE and a
\* first AZIMUTH_ANGLE that hold decimal numbers
IsDecimal(text) ==
    /\ text # <<>>
    /\ \A i \in 1..Len(text) : IsDigit(text[i]) \/ text[i] = "."
    /\ Cardinality({i \in 1..Len(text) : text[i] = "."}) <= 1
    /\ \E i \in 1..Len(text) : IsDigit(text[i])
HasMeanSunAngles(doc) ==
    /\ doc.state = "parsed"
    /\ doc.sun # <<>>
    /\ doc.sun[1].zen # <<>> /\ IsDecimal(doc.sun[1].zen[1])
    /\ doc.sun[1].azi # <<>> /\ IsDecimal(doc.sun[1].azi[1])

\* C11 as stated: with one of --toa, --output, --xml missing the program
\* prints the usage, exits with status 1 and neither reads the XML nor calls
\* doFmask; with all three given, when the program has ended doFmask has
\* been called exactly once, after the XML was read, with the file names of
\* the flags and a Sentinel 2 configuration carrying the angles and the two
\* switches.
C11_Original ==
    /\ (cli.pc # "CmdArgs" /\ ~AllGiven) => UsageAndExit
    /\ AllGiven => DoFmaskCallsRight
    /\ (AllGiven /\ Ended) => Cardinality(CallsOf("fmask.doFmask")) = 1

\* C11 amended: the same, with doFmask called exactly once only when the XML
\* document holds the mean sun angles and the raster driver is found;
\* otherwise, with all three flags given, the program ends with exit status
\* 1 on the exception and doFmask is never called.
C11_Amended ==
    /\ (cli.pc # "CmdArgs" /\ ~AllGiven) => UsageAndExit
    /\ AllGiven => DoFmaskCallsRight
    /\ (AllGiven /\ Ended /\ HasMeanSunAngles(env.xml) /\ env.driver.found)
          => Cardinality(CallsOf("fmask.doFmask")) = 1
    /\ (AllGiven /\ Ended /\ ~(HasMeanSunAngles(env.xml) /\ env.driver.found))
          => /\ CallsOf("fmask.doFmask") = {}
             /\ cli.exit = 1
             /\ cli.exc \notin {"", "SystemExit"}

\* a run with the three flags and both switches given has read the angles of
\* the first of two Mean_Sun_Angle elements, called doFmask and ended
C11_Witness ==
    /\ AllGiven
    /\ FlagGiven({"-v"}) /\ FlagGiven({"--keepintermediates"})
    /\ Len(env.xml.sun) = 2
    /\ cli.pc = "done" /\ cli.exit = 0
    /\ Cardinality(CallsOf("fmask.doFmask")) = 1
    /\ calls[Len(calls)].args[2].anglesInfo.solarZenithAngle = PyFloat(F(30, 50000))
    /\ calls[Len(calls)].args[2].verbose
    /\ calls[Len(calls)].args[1].outputMask = PyStr(OutputFile)

====
